---- MODULE Spec2Model ----
(***************************************************************************)
(* A model of the Calendar component (packages/core/src/calendar/          *)
(* calendar.tsx): the selection engine (onDayClick), the month sequence    *)
(* (months), the initial-value normalisation (getInitialDate), the passive *)
(* scroll synchronisation (onScroll) and the navigation (reset,            *)
(* scrollIntoView, scrollToDate).                                          *)
(*                                                                         *)
(* A Date is modelled at day precision as a record [y, m, d] with the real *)
(* Gregorian month lengths.  A calendar value (CalendarValueType) is a     *)
(* record [kind, dates]: kind "none" (undefined), "null", "date" (one      *)
(* Date, kept in dates[1]) or "list" (an array of Dates).                  *)
(***************************************************************************)
EXTENDS Integers, Sequences, FiniteSets, TLC

VARIABLES
    type,            \* prop type: "single" | "multiple" | "range"
    readonly,        \* prop readonly
    minValue,        \* prop min
    maxValue,        \* prop max
    months,          \* useMemo months
    currentValue,    \* prop value
    changeValueRef,  \* changeValueRef.current
    emitted,         \* values handed to onChange that the owner has not yet adopted
    defaultValue,    \* prop defaultValue
    today,           \* the day createToday() returns
    disabled,        \* the days the month views report as disabled
    click,           \* the last onDayClick call: the day, the value it saw, whether it published
    norm,            \* the last getInitialDate call: its argument and its result
    scrollTop,       \* the scroll container's scroll offset (getScrollTop(bodyRef))
    bodyHeight,      \* the scroll container's height (getRect(bodyRef).height)
    heights,         \* monthRefs[i].current.getHeight(), per month
    subtitle,        \* state subtitle
    bodyScrollTopRef,\* bodyScrollTopRef.current
    scrolls,         \* onScroll calls that have been started and have not yet run
    seen,            \* what the last onScroll call measured and chose
    valueIsRef,      \* currentValue === changeValueRef.current
    effect,          \* the last run of the effect on currentValue: what it saw and did
    closure,         \* the type and months scrollIntoView captured at mount
    attached,        \* the refs hold their elements: bodyRef.current and the
                     \* monthRefs[i].current of the months rendered are set
    navs,            \* scrollToDate calls waiting for their measurements, oldest first
    bodyScrollTop,   \* state bodyScrollTop
    lastReset,       \* the last reset call: its argument, its target and the month found
    lastApply,       \* the last scrollToDate call whose measurements resolved
    lastFail         \* the last scrollToDate call whose measurements did not resolve

vars == <<type, readonly, minValue, maxValue, months, currentValue, changeValueRef,
          emitted, defaultValue, today, disabled, click, norm, scrollTop, bodyHeight,
          heights, subtitle, bodyScrollTopRef, scrolls, seen, valueIsRef, effect,
          closure, attached, navs, bodyScrollTop, lastReset, lastApply, lastFail>>

propVars == <<type, readonly, minValue, maxValue, months, defaultValue, today, disabled>>
scrollVars == <<scrollTop, bodyHeight, heights, subtitle, bodyScrollTopRef, scrolls, seen>>
selVars == <<currentValue, changeValueRef, emitted, click, norm, valueIsRef, effect>>
navVars == <<closure, attached, navs, bodyScrollTop, lastReset, lastApply, lastFail>>

-----------------------------------------------------------------------------
(* Bounds of the model *)

NumDays == 3          \* the days a tap or a value can name: NumDays consecutive days
MaxLen == 3           \* the longest array taps grow a "multiple" value to
MaxPending == 1       \* the most published values awaiting the owner
NumMonths == 4        \* the months the bounds can name
MaxOwnerLen == 2      \* the longest array the owner passes as value or defaultValue
MaxScrolls == 2       \* the most onScroll calls started and not yet run
MaxNavs == 2          \* the most scrollToDate calls waiting for their measurements
MaxEchoes == 2        \* the most published values awaiting an owner that defers

-----------------------------------------------------------------------------
(* DateMath: calendar.shared *)

Date(y, m, d) == [y |-> y, m |-> m, d |-> d]

IsLeap(y) == (y % 4 = 0 /\ y % 100 # 0) \/ y % 400 = 0

DaysInMonth(y, m) ==
    IF m = 2 THEN (IF IsLeap(y) THEN 29 ELSE 28)
    ELSE IF m \in {4, 6, 9, 11} THEN 30 ELSE 31

compareYearMonth(a, b) ==
    IF a.y = b.y
    THEN (IF a.m = b.m THEN 0 ELSE IF a.m > b.m THEN 1 ELSE -1)
    ELSE (IF a.y > b.y THEN 1 ELSE -1)

compareDate(a, b) ==
    IF compareYearMonth(a, b) = 0
    THEN (IF a.d = b.d THEN 0 ELSE IF a.d > b.d THEN 1 ELSE -1)
    ELSE compareYearMonth(a, b)

createNextDay(a) ==
    IF a.d < DaysInMonth(a.y, a.m) THEN Date(a.y, a.m, a.d + 1)
    ELSE IF a.m < 12 THEN Date(a.y, a.m + 1, 1)
    ELSE Date(a.y + 1, 1, 1)

createPreviousDay(a) ==
    IF a.d > 1 THEN Date(a.y, a.m, a.d - 1)
    ELSE IF a.m > 1 THEN Date(a.y, a.m - 1, DaysInMonth(a.y, a.m - 1))
    ELSE Date(a.y - 1, 12, 31)

\* cursor.setDate(1)
setDate1(a) == Date(a.y, a.m, 1)

\* cursor.setMonth(cursor.getMonth() + 1), for a cursor on the first of a month
setNextMonth(a) == IF a.m < 12 THEN Date(a.y, a.m + 1, a.d) ELSE Date(a.y + 1, 1, a.d)

-----------------------------------------------------------------------------
(* Values *)

Undefined == [kind |-> "none", dates |-> <<>>]
Null == [kind |-> "null", dates |-> <<>>]
OneDate(d) == [kind |-> "date", dates |-> <<d>>]
List(s) == [kind |-> "list", dates |-> s]

\* JavaScript truthiness of a value: undefined and null are falsy, a Date and an array are truthy
Truthy(v) == v.kind \in {"date", "list"}

\* Array.isArray
IsArray(v) == v.kind = "list"

-----------------------------------------------------------------------------
(* The days and months of the model *)

StartDay == Date(2024, 2, 29)
StartMonth == Date(2023, 11, 1)

RECURSIVE DaysFrom(_, _)
DaysFrom(d, n) == IF n = 0 THEN <<>> ELSE <<d>> \o DaysFrom(createNextDay(d), n - 1)

DayList == DaysFrom(StartDay, NumDays)
Days == {DayList[i] : i \in 1..NumDays}

SeqsUpTo(S, n) == UNION {[1..k -> S] : k \in 0..n}

-----------------------------------------------------------------------------
(* MonthSequence: the months memo *)

\* the loop leaving as soon as the next month is maxValue's
RECURSIVE monthsLoopShort(_, _)
monthsLoopShort(cursor, maxV) ==
    <<cursor>> \o (IF compareYearMonth(setNextMonth(cursor), maxV) = -1
                   THEN monthsLoopShort(setNextMonth(cursor), maxV)
                   ELSE <<>>)

\* the loop as a while loop, which tests before it pushes
RECURSIVE monthsLoopWhile(_, _)
monthsLoopWhile(cursor, maxV) ==
    IF compareYearMonth(cursor, maxV) = 1 THEN <<>>
    ELSE <<cursor>> \o monthsLoopWhile(setNextMonth(cursor), maxV)

\* the do ... while loop: push the cursor, advance it by one month, repeat while the
\* cursor's month is not after maxValue's
RECURSIVE monthsLoop(_, _)
monthsLoop(cursor, maxV) ==
    <<cursor>> \o (IF compareYearMonth(setNextMonth(cursor), maxV) # 1
                   THEN monthsLoop(setNextMonth(cursor), maxV)
                   ELSE <<>>)

monthsOf(minV, maxV) == monthsLoop(setDate1(minV), maxV)

-----------------------------------------------------------------------------
(* The disabled days of the month views *)

\* an absent Date (undefined)
NoDate == Date(0, 0, 0)

RECURSIVE SortDays(_)
SortDays(S) ==
    IF S = {} THEN <<>>
    ELSE LET lo == CHOOSE x \in S : \A z \in S : compareDate(x, z) # 1
         IN  <<lo>> \o SortDays(S \ {lo})

\* ref.current.disabledDays of the view of one month: its disabled days in day order
monthDisabledDays(month, dis) == SortDays({d \in dis : compareYearMonth(d, month) = 0})

\* monthRefs.reduce(...): the views' lists, concatenated in month order
RECURSIVE getDisabledDaysFrom(_, _, _)
getDisabledDaysFrom(ms, i, dis) ==
    IF i > Len(ms) THEN <<>>
    ELSE monthDisabledDays(ms[i], dis) \o getDisabledDaysFrom(ms, i + 1, dis)

getDisabledDays(ms, dis) == getDisabledDaysFrom(ms, 1, dis)

\* getDisabledDate without the test that the day is after the start
getDisabledDateAnyBefore(disabledDays, startDay, date) ==
    LET hits == {i \in 1..Len(disabledDays) : compareDate(disabledDays[i], date) = -1}
    IN  IF hits = {} THEN NoDate
        ELSE disabledDays[CHOOSE i \in hits : \A j \in hits : i <= j]

\* disabledDays.find(day => startDay < day && day < date)?.value
getDisabledDate(disabledDays, startDay, date) ==
    LET hits == {i \in 1..Len(disabledDays) :
                    /\ compareDate(startDay, disabledDays[i]) = -1
                    /\ compareDate(disabledDays[i], date) = -1}
    IN  IF hits = {} THEN NoDate
        ELSE disabledDays[CHOOSE i \in hits : \A j \in hits : i <= j]

-----------------------------------------------------------------------------
(* SelectionEngine: onDayClick *)

\* afterStart without the look-up of a disabled day
afterStartUnclamped(startDay, date, disabledDays) == List(<<startDay, date>>)

\* range mode, start set, end absent, the tapped day after the start
afterStart(startDay, date, disabledDays) ==
    LET disabledDay == getDisabledDate(disabledDays, startDay, date)
    IN  IF disabledDay # NoDate
        THEN List(<<startDay, createPreviousDay(disabledDay)>>)
        ELSE List(<<startDay, date>>)

\* beforeStart keeping the old start as the end
beforeStartSwapped(startDay, date) == List(<<date, startDay>>)

\* range mode, start set, end absent, the tapped day before the start
beforeStart(startDay, date) == List(<<date>>)

\* onStart starting over instead of closing the range
onStartSingle(startDay, date) == List(<<date>>)

\* range mode, start set, end absent, the tapped day the start's day
onStart(startDay, date) == List(<<date, date>>)

\* restart extending a completed range instead of starting over
restartExtending(cur, date) ==
    IF Truthy(cur) /\ Len(cur.dates) >= 2 /\ compareDate(date, cur.dates[2]) = 1
    THEN List(<<cur.dates[1], date>>)
    ELSE List(<<date>>)

\* range mode, no current value or a completed range
restart(cur, date) == List(<<date>>)

\* rangeClick closing the range with the tapped day without comparing it to the start
rangeClickUnordered(cur, date, disabledDays) ==
    IF Truthy(cur) /\ Len(cur.dates) = 1 THEN List(<<cur.dates[1], date>>)
    ELSE List(<<date>>)

\* the value onDayClick hands to change in range mode
rangeClick(cur, date, disabledDays) ==
    IF ~Truthy(cur) THEN restart(cur, date)
    ELSE
      LET startPresent == Len(cur.dates) >= 1
          endPresent == Len(cur.dates) >= 2
          startDay == cur.dates[1]
          compareToStart == compareDate(date, startDay)
      IN  IF startPresent /\ ~endPresent
          THEN IF compareToStart = 1 THEN afterStart(startDay, date, disabledDays)
               ELSE IF compareToStart = -1 THEN beforeStart(startDay, date)
               ELSE onStart(startDay, date)
          ELSE restart(cur, date)

\* multipleClick putting a new day first instead of last
multipleClickPrepending(cur, date) ==
    IF ~Truthy(cur) THEN List(<<date>>)
    ELSE
      LET dates == cur.dates
          keep(dateItem) == compareDate(dateItem, date) # 0
          newDates == SelectSeq(dates, keep)
      IN  IF Len(newDates) # Len(dates) THEN List(newDates)
          ELSE List(<<date>> \o dates)

\* the value onDayClick hands to change in multiple mode
multipleClick(cur, date) ==
    IF ~Truthy(cur) THEN List(<<date>>)
    ELSE
      LET dates == cur.dates
          keep(dateItem) == compareDate(dateItem, date) # 0
          newDates == SelectSeq(dates, keep)
      IN  IF Len(newDates) # Len(dates) THEN List(newDates)
          ELSE List(Append(dates, date))

onDayClickValue(ty, cur, date, disabledDays) ==
    IF ty = "range" THEN rangeClick(cur, date, disabledDays)
    ELSE IF ty = "multiple" THEN multipleClick(cur, date)
    ELSE OneDate(date)

\* change calling onChange only for a value other than the current one
changeIfNew(dateValue) ==
    IF dateValue # currentValue
    THEN changeValueRef' = dateValue /\ emitted' = Append(emitted, dateValue)
    ELSE UNCHANGED <<changeValueRef, emitted>>

\* change(dateValue)
change(dateValue) ==
    /\ changeValueRef' = dateValue
    /\ emitted' = Append(emitted, dateValue)

-----------------------------------------------------------------------------
(* Initial-value normalisation: limitDateRange, getInitialDate *)

\* limitDateRange(date, minDate = minValue, maxDate = maxValue): the callers here pass
\* the defaults themselves
limitDateRange(date, minDate, maxDate) ==
    IF compareDate(date, minDate) = -1 THEN minDate
    ELSE IF compareDate(date, maxDate) = 1 THEN maxDate
    ELSE date

\* getInitialDate in range mode
initialRange(defaultDate, now, minV, maxV) ==
    LET dd == IF IsArray(defaultDate) THEN defaultDate.dates ELSE <<>>
        first == IF Len(dd) >= 1 THEN dd[1] ELSE now
        second == IF Len(dd) >= 2 THEN dd[2] ELSE now
        start == limitDateRange(first, minV, createPreviousDay(maxV))
        end == limitDateRange(second, createNextDay(minV), maxV)
    IN  List(<<start, end>>)

\* getInitialDate in multiple mode
initialMultiple(defaultDate, now, minV, maxV) ==
    IF IsArray(defaultDate)
    THEN List([i \in 1..Len(defaultDate.dates) |->
                   limitDateRange(defaultDate.dates[i], minV, maxV)])
    ELSE List(<<limitDateRange(now, minV, maxV)>>)

\* getInitialDate in single mode
initialSingle(defaultDate, now, minV, maxV) ==
    LET d == IF ~Truthy(defaultDate) \/ IsArray(defaultDate) THEN now
             ELSE defaultDate.dates[1]
    IN  OneDate(limitDateRange(d, minV, maxV))

getInitialDate(ty, defaultDate, now, minV, maxV) ==
    IF defaultDate.kind = "null" THEN defaultDate
    ELSE IF ty = "range" THEN initialRange(defaultDate, now, minV, maxV)
    ELSE IF ty = "multiple" THEN initialMultiple(defaultDate, now, minV, maxV)
    ELSE initialSingle(defaultDate, now, minV, maxV)

\* a ?? b
Coalesce(a, b) == IF a.kind \in {"none", "null"} THEN b ELSE a

\* the getInitialDate call of an effect, recorded with its argument
normCall(ty, arg, now, minV, maxV) ==
    [arg |-> arg, result |-> getInitialDate(ty, arg, now, minV, maxV)]

-----------------------------------------------------------------------------
(* Passive scroll synchronisation: onScroll *)

\* defaultSubtitleRender: the label of a month, its year and its month
defaultSubtitleRender(date) == <<date.y, date.m>>

\* the subtitle state before any setSubtitle
NoSubtitle == <<>>

RECURSIVE Sum(_)
Sum(hs) == IF hs = <<>> THEN 0 ELSE Head(hs) + Sum(Tail(hs))

\* the overshoot test comparing the band's top, not its bottom, with the content
overshootByTop(top, bottom, heightSum) == top > heightSum /\ top > 0

\* the overshoot test: iOS scroll bounce may exceed the range
overshoot(top, bottom, heightSum) == bottom > heightSum /\ top > 0

\* the loop taking a month for visible only when it reaches into the band
RECURSIVE firstVisibleInside(_, _, _, _, _)
firstVisibleInside(i, height, hs, top, bottom) ==
    IF i > Len(hs) THEN 0
    ELSE IF height < bottom /\ height + hs[i] > top THEN i
    ELSE firstVisibleInside(i + 1, height + hs[i], hs, top, bottom)

\* the for loop: the index (from 1) of the first month with
\* height <= bottom && height + heights[i] >= top, 0 when there is none
RECURSIVE firstVisible(_, _, _, _, _)
firstVisible(i, height, hs, top, bottom) ==
    IF i > Len(hs) THEN 0
    ELSE IF height <= bottom /\ height + hs[i] >= top THEN i
    ELSE firstVisible(i + 1, height + hs[i], hs, top, bottom)

\* onScroll without its early return
onScrollMonthUnguarded(top, bodyH, hs) == firstVisible(1, 0, hs, top, top + bodyH)

\* the month onScroll makes current, 0 when it returns early or finds none
onScrollMonth(top, bodyH, hs) ==
    IF overshoot(top, top + bodyH, Sum(hs)) THEN 0
    ELSE firstVisible(1, 0, hs, top, top + bodyH)

-----------------------------------------------------------------------------
(* Navigation: reset, scrollIntoView, scrollToDate *)

\* the effect on currentValue without its test
notLastPublishedAlways(isRef) == TRUE

\* the test of the effect on currentValue, currentValue !== changeValueRef.current,
\* on whether the two are one object
notLastPublished(isRef) == ~isRef

\* the date scrollIntoView passes to scrollToDate, NoDate for undefined; ty is the
\* type of the render that made the callback
targetDate(ty, newValue) ==
    IF ty = "single" /\ newValue.kind = "date" THEN newValue.dates[1]
    ELSE IF IsArray(newValue) /\ Len(newValue.dates) >= 1 THEN newValue.dates[1]
    ELSE NoDate

\* months.some: the index (from 1) of the first month of ms with the year and
\* month of target, 0 when there is none or when target is undefined and
\* compareYearMonth throws
monthIndexOf(ms, target) ==
    LET hits == {i \in 1..Len(ms) : compareYearMonth(ms[i], target) = 0}
    IN  IF target = NoDate \/ hits = {} THEN 0
        ELSE CHOOSE i \in hits : \A j \in hits : i <= j

\* a scrollToDate call that awaits its measurements
navCall(index) == [month |-> index, stale |-> FALSE, winner |-> -1]

\* a later scrollToDate call is made: the calls in flight are no longer the latest,
\* and beyond MaxNavs calls the oldest one is the one whose measurements never resolve
navPush(calls, call) ==
    LET older == [i \in 1..Len(calls) |-> [calls[i] EXCEPT !.stale = TRUE]]
        all == Append(older, call)
    IN  IF Len(all) > MaxNavs THEN Tail(all) ELSE all

\* the calls left in flight when call i is over; when it was the latest call and its
\* offset was applied, the others are marked with that offset
navRest(calls, i, offset) ==
    LET rest == SubSeq(calls, 1, i - 1) \o SubSeq(calls, i + 1, Len(calls))
    IN  IF calls[i].stale \/ offset < 0 THEN rest
        ELSE [j \in 1..Len(rest) |-> [rest[j] EXCEPT !.winner = offset]]

\* the top of month index within the content: the heights of the months before it
monthTop(hs, index) == Sum(SubSeq(hs, 1, index - 1))

\* MonthView.getScrollTop: the top of the month relative to the screen
monthScrollTop(hs, index, bodyTop, bodyScroll) == bodyTop + monthTop(hs, index) - bodyScroll

\* newBodyScrollTop
newBodyScrollTop(monthTopOnScreen, bodyTop, bodyScroll) ==
    monthTopOnScreen - bodyTop + bodyScroll

\* the then callback setting the new offset only
setBodyScrollTopDirect(refCurrent, newTop) == <<newTop>>

\* the setBodyScrollTop calls of the then callback, in order
setBodyScrollTopCalls(refCurrent, newTop) ==
    IF refCurrent # newTop THEN <<refCurrent, newTop>> ELSE <<newTop>>

\* a rejection handler that leaves the call in flight, to be tried again
onRejectedRetry(calls, i) == calls

\* a Promise.all that rejects or never settles has no handler: the call is over and
\* the calls left in flight are the others
onRejected(calls, i) == navRest(calls, i, -1)

\* reset(date), its nextTick and scrollIntoView run with the render that follows the
\* caller: ms is that render's months, whose views monthRefs holds, while the type
\* and the months scrollIntoView reads are the ones of closure. scrollToDate sets the
\* subtitle and, if (bodyRef.current), starts its measurements; it throws on a
\* monthRefs[index].current that is not set. A falsy date falls to onScroll
reset(by, date, ms) ==
    LET target == targetDate(closure.type, date)
        index == monthIndexOf(closure.months, target)
        found == Truthy(date) /\ index # 0 /\ index <= Len(ms) /\ attached
    IN  /\ subtitle' = IF found THEN defaultSubtitleRender(ms[index]) ELSE subtitle
        /\ navs' = IF found THEN navPush(navs, navCall(index)) ELSE navs
        /\ scrolls' = IF ~Truthy(date) /\ scrolls < MaxScrolls THEN scrolls + 1
                      ELSE scrolls
        /\ lastReset' = [by |-> by, date |-> date, target |-> target,
                         index |-> IF Truthy(date) THEN index ELSE 0, found |-> found,
                         subBefore |-> IF found THEN subtitle ELSE NoSubtitle]

noReset == UNCHANGED <<subtitle, navs, scrolls, lastReset>>

-----------------------------------------------------------------------------
(* The handlers *)

\* onDayClick(day), day.value being date (NoDate for a filler cell)
onDayClick(date) ==
    /\ LET acts == ~(readonly \/ date = NoDate)
           value == onDayClickValue(type, currentValue, date,
                                    getDisabledDays(months, disabled))
       IN  /\ acts => Len(value.dates) <= MaxLen
           /\ IF acts THEN change(value) ELSE UNCHANGED <<changeValueRef, emitted>>
           /\ click' = [day |-> date, before |-> currentValue, published |-> acts,
                       value |-> IF acts THEN value ELSE Undefined,
                       sent |-> SubSeq(emitted', Len(emitted) + 1, Len(emitted'))]
           /\ valueIsRef' = (valueIsRef /\ ~acts)
    /\ UNCHANGED <<propVars, currentValue, norm, effect>>
    /\ UNCHANGED scrollVars
    /\ UNCHANGED navVars

\* the owner adopts the oldest value it was handed: the value prop becomes that value,
\* and the effect on currentValue normalises it when it is not the value last published
\* An array a tap published is an object of its own; a Date a tap published is the
\* one its day cell holds, the same for two taps on one day
ownerEcho ==
    /\ emitted # <<>>
    /\ currentValue' = Head(emitted)
    /\ emitted' = Tail(emitted)
    /\ valueIsRef' = (\/ Len(emitted) = 1
                      \/ type = "single" /\ Head(emitted) = changeValueRef)
    /\ IF notLastPublished(valueIsRef')
       THEN /\ norm' = normCall(type, currentValue', today, minValue, maxValue)
            /\ reset("value", norm'.result, months)
       ELSE UNCHANGED norm /\ noReset
    /\ effect' = [ran |-> TRUE, echo |-> TRUE, value |-> currentValue',
                  newest |-> Len(emitted) = 1, ref |-> changeValueRef,
                  reset |-> notLastPublished(valueIsRef')]
    /\ UNCHANGED <<propVars, changeValueRef, click>>
    /\ UNCHANGED <<scrollTop, bodyHeight, heights, bodyScrollTopRef, seen>>
    /\ UNCHANGED <<closure, attached, bodyScrollTop, lastApply, lastFail>>

\* the owner passes a value of its own making as the value prop, and the effect on
\* currentValue runs
ownerSet(v) ==
    /\ v # currentValue
    /\ currentValue' = v
    /\ valueIsRef' = (v = Undefined /\ changeValueRef = Undefined)
    /\ IF notLastPublished(valueIsRef')
       THEN /\ norm' = normCall(type, v, today, minValue, maxValue)
            /\ reset("value", norm'.result, months)
       ELSE UNCHANGED norm /\ noReset
    /\ effect' = [ran |-> TRUE, echo |-> FALSE, value |-> v, newest |-> FALSE,
                  ref |-> changeValueRef,
                  reset |-> notLastPublished(valueIsRef')]
    /\ UNCHANGED <<propVars, changeValueRef, emitted, click>>
    /\ UNCHANGED <<scrollTop, bodyHeight, heights, bodyScrollTopRef, seen>>
    /\ UNCHANGED <<closure, attached, bodyScrollTop, lastApply, lastFail>>

\* a render with changed props: the months memo is recomputed and the effect on
\* type, minValue and maxValue normalises currentValue ?? defaultValue
propsChange(ty, minV, maxV) ==
    /\ type' = ty
    /\ minValue' = minV
    /\ maxValue' = maxV
    /\ months' = monthsOf(minV, maxV)
    /\ norm' = normCall(ty, Coalesce(currentValue, defaultValue), today, minV, maxV)
    /\ reset("props", norm'.result, months')
    /\ UNCHANGED <<readonly, defaultValue, today, disabled, currentValue, changeValueRef,
                   emitted, click, valueIsRef, effect>>
    /\ UNCHANGED <<scrollTop, bodyHeight, heights, bodyScrollTopRef, seen>>
    /\ UNCHANGED <<closure, attached, bodyScrollTop, lastApply, lastFail>>

setType(ty) == ty # type /\ propsChange(ty, minValue, maxValue)
setMin(minV) == minV # minValue /\ propsChange(type, minV, maxValue)
setMax(maxV) == maxV # maxValue /\ propsChange(type, minValue, maxV)

\* the scroll container is scrolled to top: the ScrollView's onScroll handler stores
\* detail.scrollTop and starts onScroll, which waits for its measurements
scrollEvent(top) ==
    /\ scrolls < MaxScrolls
    /\ top # scrollTop
    /\ scrollTop' = top
    /\ bodyScrollTopRef' = top
    /\ scrolls' = scrolls + 1
    /\ UNCHANGED <<propVars, selVars, navVars>>
    /\ UNCHANGED <<bodyHeight, heights, subtitle, seen>>

\* the scroll container, moved by its scrollTop prop, reports where it is
scrolled ==
    /\ scrolls < MaxScrolls
    /\ bodyScrollTopRef # scrollTop
    /\ bodyScrollTopRef' = scrollTop
    /\ scrolls' = scrolls + 1
    /\ UNCHANGED <<propVars, selVars, navVars>>
    /\ UNCHANGED <<scrollTop, bodyHeight, heights, subtitle, seen>>

\* onScroll, its measurements resolved: the early return, the loop and setMonthSubtitle
onScroll ==
    /\ scrolls > 0
    /\ scrolls' = scrolls - 1
    /\ LET top == scrollTop
           bottom == top + bodyHeight
           hs == [i \in 1..Len(months) |-> heights[i]]
           currentMonth == onScrollMonth(top, bodyHeight, hs)
       IN  /\ subtitle' = IF currentMonth # 0
                          THEN defaultSubtitleRender(months[currentMonth])
                          ELSE subtitle
           /\ seen' = [ran |-> TRUE, top |-> top, bodyHeight |-> bodyHeight,
                       heights |-> hs, skipped |-> overshoot(top, bottom, Sum(hs)),
                       month |-> currentMonth, before |-> subtitle]
    /\ UNCHANGED <<propVars, selVars, navVars>>
    /\ UNCHANGED <<scrollTop, bodyHeight, heights, bodyScrollTopRef>>

\* the measurements of the scrollToDate call at position i resolve, whatever the
\* order of the calls: the then callback computes the offset and applies it, and the
\* container follows its scrollTop prop
navResolve(i, bodyTop) ==
    /\ i \in 1..Len(navs)
    /\ LET call == navs[i]
           onScreen == monthScrollTop(heights, call.month, bodyTop, scrollTop)
           newTop == newBodyScrollTop(onScreen, bodyTop, scrollTop)
           calls == setBodyScrollTopCalls(bodyScrollTopRef, newTop)
       IN  /\ bodyScrollTop' = calls[Len(calls)]
           /\ scrollTop' = bodyScrollTop'
           /\ lastApply' = [ran |-> TRUE, winner |-> call.winner, ref |-> bodyScrollTopRef,
                            applied |-> bodyScrollTop,
                            target |-> monthTop(heights, call.month), calls |-> calls]
           /\ navs' = navRest(navs, i, bodyScrollTop')
    /\ UNCHANGED <<propVars, selVars>>
    /\ UNCHANGED <<bodyHeight, heights, subtitle, bodyScrollTopRef, scrolls, seen>>
    /\ UNCHANGED <<closure, attached, lastReset, lastFail>>

\* a measurement of the scrollToDate call at position i rejects, or will never resolve
navFail(i) ==
    /\ i \in 1..Len(navs)
    /\ navs' = onRejected(navs, i)
    /\ lastFail' = [ran |-> TRUE, latest |-> ~navs[i].stale,
                    subBefore |-> IF navs[i].stale THEN NoSubtitle
                                  ELSE lastReset.subBefore,
                    subtitle |-> subtitle]
    /\ UNCHANGED <<propVars, selVars, scrollVars>>
    /\ UNCHANGED <<closure, attached, bodyScrollTop, lastReset, lastApply>>

-----------------------------------------------------------------------------
(* The inputs of the model *)

\* the values of the shape the mode expects that the owner can pass as the value prop
ValuesFor(ty) ==
    {Undefined, Null} \cup
    (IF ty = "single" THEN {OneDate(d) : d \in Days}
     ELSE IF ty = "range" THEN {List(s) : s \in SeqsUpTo(Days, 2)}
     ELSE {List(s) : s \in SeqsUpTo(Days, MaxOwnerLen)})

\* the values the owner makes itself once the calendar is mounted: none, and the
\* first day in the shape the mode expects
OwnValues(ty) ==
    {Undefined, Null, IF ty = "single" THEN OneDate(DayList[1]) ELSE List(<<DayList[1]>>)}

\* the days tapped while the owner defers: the first and the last
EchoDays == {DayList[1], DayList[NumDays]}

RECURSIVE MonthsFrom(_, _)
MonthsFrom(month, n) ==
    IF n = 0 THEN <<>> ELSE <<month>> \o MonthsFrom(setNextMonth(month), n - 1)

\* NumMonths consecutive months, across the turn of the year
MonthList == MonthsFrom(StartMonth, NumMonths)

LastDayOf(month) == Date(month.y, month.m, DaysInMonth(month.y, month.m))

\* the dates min and max can take: the first and the last day of each month
BoundDates == {MonthList[i] : i \in 1..NumMonths} \cup
              {LastDayOf(MonthList[i]) : i \in 1..NumMonths}

\* the dates a default value and today can take
RawDates == {MonthList[2], LastDayOf(MonthList[2]), MonthList[3]}

\* the default values of any shape
RawValues ==
    {Undefined, Null} \cup {OneDate(d) : d \in RawDates} \cup
    {List(s) : s \in SeqsUpTo(RawDates, MaxOwnerLen)}

Types == {"single", "multiple", "range"}
ScrollTops == {0, 50, 500, 700}
BodyHeights == {800, 1000}
MonthHeights == {300, 500}

BodyTops == {0, 44}
NavTops == {0, 500}

NoClick == [day |-> NoDate, before |-> Undefined, published |-> FALSE, value |-> Undefined,
            sent |-> <<>>]
NoEffect == [ran |-> FALSE, echo |-> FALSE, value |-> Undefined, newest |-> FALSE,
             ref |-> Undefined, reset |-> FALSE]
NoReset == [by |-> "none", date |-> Undefined, target |-> NoDate, index |-> 0,
            found |-> FALSE, subBefore |-> NoSubtitle]
NoApply == [ran |-> FALSE, winner |-> -1, ref |-> 0, applied |-> 0, target |-> 0,
            calls |-> <<>>]
NoFail == [ran |-> FALSE, latest |-> FALSE, subBefore |-> NoSubtitle,
           subtitle |-> NoSubtitle]
NoSeen == [ran |-> FALSE, top |-> 0, bodyHeight |-> 0, heights |-> <<>>,
           skipped |-> FALSE, month |-> 0, before |-> NoSubtitle]

\* the selection state of a component no day of which was tapped
SelectionIdle ==
    /\ changeValueRef = Undefined
    /\ emitted = <<>>
    /\ click = NoClick
    /\ valueIsRef = (currentValue = Undefined)
    /\ effect = NoEffect

\* the navigation state of a component whose mount's scrollToDate calls are over:
\* scrollIntoView holds the type and the months of the first render
NavIdle ==
    /\ closure = [type |-> type, months |-> months]
    /\ navs = <<>>
    /\ bodyScrollTop = 0
    /\ lastReset = NoReset
    /\ lastApply = NoApply
    /\ lastFail = NoFail

\* the scroll state of a component whose views were not laid out
ScrollIdle ==
    /\ attached = FALSE
    /\ scrollTop = 0
    /\ bodyHeight = 0
    /\ heights = <<>>
    /\ subtitle = NoSubtitle
    /\ bodyScrollTopRef = 0
    /\ scrolls = 0
    /\ seen = NoSeen

\* after mount: the months memo and the effects' first getInitialDate call
Mounted ==
    /\ months = monthsOf(minValue, maxValue)
    /\ norm = normCall(type, Coalesce(currentValue, defaultValue), today,
                       minValue, maxValue)

-----------------------------------------------------------------------------
(* Taps: a mounted calendar whose days are tapped and whose owner adopts the values *)

InitTap ==
    /\ type \in Types
    /\ readonly \in BOOLEAN
    /\ minValue = DayList[1]
    /\ maxValue = DayList[NumDays]
    /\ currentValue \in ValuesFor(type)
    /\ defaultValue = Undefined
    /\ today = DayList[1]
    /\ disabled \in (IF type = "range" THEN SUBSET Days ELSE {{}})
    /\ Mounted
    /\ SelectionIdle
    /\ ScrollIdle
    /\ NavIdle

NextTap ==
    \/ Len(emitted) < MaxPending /\ \E date \in Days \cup {NoDate} : onDayClick(date)
    \/ ownerEcho

SpecTap == InitTap /\ [][NextTap]_vars

-----------------------------------------------------------------------------
(* Echoes: a mounted calendar with no value whose days are tapped, and whose owner  *)
(* adopts the published values late, up to MaxEchoes taps behind, or passes values *)
(* of its own                                                                      *)

InitEcho ==
    /\ type \in Types
    /\ readonly = FALSE
    /\ minValue = DayList[1]
    /\ maxValue = DayList[NumDays]
    /\ currentValue = Undefined
    /\ defaultValue = Undefined
    /\ today = DayList[1]
    /\ disabled = {}
    /\ Mounted
    /\ SelectionIdle
    /\ ScrollIdle
    /\ NavIdle

NextEcho ==
    \/ Len(emitted) < MaxEchoes /\ \E date \in EchoDays : onDayClick(date)
    \/ ownerEcho
    \/ \E v \in OwnValues(type) : ownerSet(v)

SpecEcho == InitEcho /\ [][NextEcho]_vars

-----------------------------------------------------------------------------
(* Navigation: a single-mode calendar of three months, laid out and mounted with a  *)
(* value, whose owner passes other values and whose container is scrolled, while   *)
(* the measurements of scrollToDate resolve in any order or not at all              *)

\* the values the owner passes: the first day of the first and of the second month,
\* the months the container can bring to its top
NavValues == {OneDate(MonthList[i]) : i \in 1..2}

\* the three reset calls of the mount, by init and by the two effects, all for the
\* month of the value: the scrollToDate calls they leave in flight and the subtitle
MountNavs(index) ==
    navPush(navPush(navPush(<<>>, navCall(index)), navCall(index)), navCall(index))

InitNav ==
    /\ type = "single"
    /\ readonly = FALSE
    /\ minValue = MonthList[1]
    /\ maxValue = LastDayOf(MonthList[3])
    /\ currentValue \in NavValues
    /\ defaultValue = Undefined
    /\ today = MonthList[1]
    /\ disabled = {}
    /\ Mounted
    /\ SelectionIdle
    /\ attached = TRUE
    /\ scrollTop = 0
    /\ bodyHeight = 800
    /\ heights = [i \in 1..Len(months) |-> 500]
    /\ bodyScrollTopRef = 0
    /\ scrolls = 0
    /\ seen = NoSeen
    /\ closure = [type |-> type, months |-> months]
    /\ bodyScrollTop = 0
    /\ LET target == targetDate(type, norm.result)
           index == monthIndexOf(months, target)
       IN  /\ subtitle = defaultSubtitleRender(months[index])
           /\ navs = MountNavs(index)
           /\ lastReset = [by |-> "mount", date |-> norm.result, target |-> target,
                           index |-> index, found |-> TRUE, subBefore |-> subtitle]
    /\ lastApply = NoApply
    /\ lastFail = NoFail

NextNav ==
    \/ \E v \in NavValues : ownerSet(v)
    \/ \E i \in 1..MaxNavs, bodyTop \in BodyTops : navResolve(i, bodyTop)
    \/ \E i \in 1..MaxNavs : navFail(i)
    \/ \E top \in NavTops : scrollEvent(top)
    \/ scrolled
    \/ onScroll

SpecNav == InitNav /\ [][NextNav]_vars

-----------------------------------------------------------------------------
(* Props: a calendar mounted with the widest bounds and any default value, whose   *)
(* type and bounds then change                                                     *)

InitProps ==
    /\ type \in Types
    /\ readonly = FALSE
    /\ minValue = MonthList[1]
    /\ maxValue = LastDayOf(MonthList[NumMonths])
    /\ currentValue = Undefined
    /\ defaultValue \in RawValues
    /\ today \in RawDates
    /\ disabled = {}
    /\ Mounted
    /\ SelectionIdle
    /\ ScrollIdle
    /\ NavIdle

NextProps ==
    \/ \E ty \in Types : setType(ty)
    \/ \E d \in BoundDates : setMin(d)
    \/ \E d \in BoundDates : setMax(d)

SpecProps == InitProps /\ [][NextProps]_vars

-----------------------------------------------------------------------------
(* Scrolling: a calendar mounted with no value and a null default, so that both of    *)
(* the mount's reset calls fall to onScroll, and whose container is then scrolled   *)

InitScroll ==
    /\ type = "single"
    /\ readonly = FALSE
    /\ minValue = MonthList[1]
    /\ maxValue \in {LastDayOf(MonthList[i]) : i \in 1..NumMonths}
    /\ currentValue = Undefined
    /\ defaultValue = Null
    /\ today = MonthList[1]
    /\ disabled = {}
    /\ Mounted
    /\ SelectionIdle
    /\ attached = TRUE
    /\ scrollTop \in ScrollTops
    /\ bodyHeight \in BodyHeights
    /\ heights \in [1..Len(months) -> MonthHeights]
    /\ subtitle = NoSubtitle
    /\ bodyScrollTopRef = 0
    /\ scrolls = 2
    /\ seen = NoSeen
    /\ NavIdle

NextScroll ==
    \/ \E top \in ScrollTops : scrollEvent(top)
    \/ onScroll

SpecScroll == InitScroll /\ [][NextScroll]_vars

-----------------------------------------------------------------------------
(* The selection engine's properties, over the last onDayClick call *)

\* the click acted in range mode on a value with a start and no end
RangeInProgress ==
    /\ type = "range"
    /\ click.published
    /\ click.before.kind = "list"
    /\ Len(click.before.dates) = 1

\* the disabled days strictly between two days
DisabledBetween(s, t) ==
    {d \in disabled : compareDate(s, d) = -1 /\ compareDate(d, t) = -1}

\* the earliest of a non-empty set of days
Earliest(S) == CHOOSE d \in S : \A e \in S : compareDate(d, e) # 1

\* C1: in range mode with start set and end absent, a tap on a day t after the start
\* publishes [start, previousDay(d)], d the first disabled day strictly between start
\* and t, and [start, t] when there is none; the end is never t when d exists.
C1_ExtendClampsAtFirstDisabled ==
    (RangeInProgress /\ compareDate(click.day, click.before.dates[1]) = 1) =>
        LET start == click.before.dates[1]
            t == click.day
            between == DisabledBetween(start, t)
        IN  IF between = {}
            THEN click.value = List(<<start, t>>)
            ELSE /\ click.value = List(<<start, createPreviousDay(Earliest(between))>>)
                 /\ click.value.dates[2] # t

\* a tap two days past the start, the day in between disabled, was clamped to the start
C1_Witness ==
    /\ RangeInProgress
    /\ click.before.dates[1] = DayList[1]
    /\ click.day = DayList[3]
    /\ disabled = {DayList[2]}
    /\ click.value = List(<<DayList[1], DayList[1]>>)

\* C2: in range mode no published range [start, end] spans a disabled day: no disabled
\* day d has start < d < end.
C2_NoDisabledDaySpanned ==
    (type = "range" /\ click.published /\ Len(click.value.dates) = 2) =>
        DisabledBetween(click.value.dates[1], click.value.dates[2]) = {}

\* taps on 29 February and 2 March, 1 March disabled, published the range that ends
\* before 1 March, and the owner adopted it
C2_Witness ==
    /\ type = "range"
    /\ disabled = {Date(2024, 3, 1)}
    /\ click.published
    /\ click.before = List(<<Date(2024, 2, 29)>>)
    /\ click.day = Date(2024, 3, 2)
    /\ emitted = <<>>
    /\ currentValue = List(<<Date(2024, 2, 29), Date(2024, 2, 29)>>)

\* C3: in range mode with start set and end absent, a tap on a day before the start
\* publishes [tapped], end absent.
C3_TapBeforeStartRestarts ==
    (RangeInProgress /\ compareDate(click.day, click.before.dates[1]) = -1) =>
        click.value = List(<<click.day>>)

C3_Witness ==
    /\ RangeInProgress
    /\ compareDate(click.day, click.before.dates[1]) = -1
    /\ click.value = List(<<click.day>>)
    /\ changeValueRef = click.value

\* C4: in range mode with start set and end absent, a tap on the start's day publishes
\* the zero-length range [start, start].
C4_TapOnStartClosesRange ==
    (RangeInProgress /\ compareDate(click.day, click.before.dates[1]) = 0) =>
        /\ Len(click.value.dates) = 2
        /\ compareDate(click.value.dates[1], click.before.dates[1]) = 0
        /\ compareDate(click.value.dates[2], click.before.dates[1]) = 0

C4_Witness ==
    /\ RangeInProgress
    /\ compareDate(click.day, click.before.dates[1]) = 0
    /\ click.value = List(<<click.day, click.day>>)
    /\ changeValueRef = click.value

\* the click acted in range mode on a completed range
RangeCompleted ==
    /\ type = "range"
    /\ click.published
    /\ click.before.kind = "list"
    /\ Len(click.before.dates) = 2

\* the click acted in range mode with no current value
RangeEmpty ==
    /\ type = "range"
    /\ click.published
    /\ click.before.kind \in {"none", "null"}

\* C5: in range mode a tap on any day publishes [tapped], end absent, when the current
\* value is a completed range and when there is no current value.
C5_TapRestartsSelection ==
    (RangeCompleted \/ RangeEmpty) => click.value = List(<<click.day>>)

\* a tap after the end of a completed range started over
C5_Witness ==
    /\ RangeCompleted
    /\ compareDate(click.before.dates[1], click.before.dates[2]) = -1
    /\ compareDate(click.day, click.before.dates[2]) = 1
    /\ click.value = List(<<click.day>>)

\* a sequence of days without the entries of one day
RECURSIVE WithoutDay(_, _)
WithoutDay(s, day) ==
    IF s = <<>> THEN <<>>
    ELSE IF compareDate(Head(s), day) = 0 THEN WithoutDay(Tail(s), day)
    ELSE <<Head(s)>> \o WithoutDay(Tail(s), day)

HasDay(s, day) == \E i \in 1..Len(s) : compareDate(s[i], day) = 0

\* C6: in multiple mode a tap on a day of the current set removes that day and leaves
\* the other elements in their order; a tap on an absent day appends it.
C6_MultipleToggles ==
    (type = "multiple" /\ click.published /\ click.before.kind = "list") =>
        IF HasDay(click.before.dates, click.day)
        THEN /\ click.value = List(WithoutDay(click.before.dates, click.day))
             /\ ~HasDay(click.value.dates, click.day)
        ELSE click.value = List(click.before.dates \o <<click.day>>)

\* the middle one of three days was tapped and the outer two stayed, in order
C6_Witness ==
    /\ type = "multiple"
    /\ click.published
    /\ click.before.kind = "list"
    /\ Len(click.before.dates) = 3
    /\ click.before.dates[2] = click.day
    /\ click.value = List(<<click.before.dates[1], click.before.dates[3]>>)
    /\ click.before.dates[1] # click.before.dates[3]

-----------------------------------------------------------------------------
(* The month sequence's properties *)

\* the months since year 0 of a date
MonthOrdinal(a) == a.y * 12 + (a.m - 1)

BoundsValid == compareDate(minValue, maxValue) # 1

\* C7: for min <= max the month sequence consists of first-of-month dates, advances by
\* exactly one calendar month per step, starts in min's year-month and ends in max's.
C7_MonthsSpanBounds ==
    BoundsValid =>
        /\ Len(months) >= 1
        /\ \A i \in 1..Len(months) : months[i].d = 1
        /\ \A i \in 1..(Len(months) - 1) :
               MonthOrdinal(months[i + 1]) = MonthOrdinal(months[i]) + 1
        /\ compareYearMonth(months[1], minValue) = 0
        /\ compareYearMonth(months[Len(months)], maxValue) = 0

\* bounds from a last day of a month of one year to a month of the next, three months on
C7_Witness ==
    /\ BoundsValid
    /\ minValue.d # 1
    /\ maxValue.y = minValue.y + 1
    /\ Len(months) >= 3
    /\ months[1] = Date(minValue.y, minValue.m, 1)
    /\ months[Len(months)] = Date(maxValue.y, maxValue.m, 1)

\* C8 as claimed: with min's month after max's month the month sequence is empty.
C8_InvalidBoundsEmpty ==
    compareYearMonth(minValue, maxValue) = 1 => months = <<>>

\* C8 as the code has it: with min's month after max's month the month sequence is
\* the one entry of min's month, the first of that month.
C8_InvalidBoundsOneMonth ==
    compareYearMonth(minValue, maxValue) = 1 =>
        /\ Len(months) = 1
        /\ months[1] = Date(minValue.y, minValue.m, 1)

C8_Witness ==
    /\ compareYearMonth(minValue, maxValue) = 1
    /\ minValue.d # 1
    /\ minValue.y = maxValue.y + 1
    /\ months = <<Date(minValue.y, minValue.m, 1)>>

-----------------------------------------------------------------------------
(* The normalisation's properties, over the last getInitialDate call *)

InBounds(d) == compareDate(d, minValue) # -1 /\ compareDate(d, maxValue) # 1

\* C9: for every mode, all bounds with min <= max and every raw default, every date of
\* the value getInitialDate returns lies within [min, max].
C9_NormalizedWithinBounds ==
    BoundsValid =>
        \A i \in 1..Len(norm.result.dates) : InBounds(norm.result.dates[i])

\* the extent of the failure: the dates lie within [min, max] except in range mode
\* with min and max on the same day
C9_WithinBoundsUnlessRangeOfOneDay ==
    (BoundsValid /\ ~(type = "range" /\ compareDate(minValue, maxValue) = 0)) =>
        \A i \in 1..Len(norm.result.dates) : InBounds(norm.result.dates[i])

-----------------------------------------------------------------------------
(* The passive synchronisation's properties, over the last onScroll call *)

\* onScroll measured offset 500, viewport height 800 and month heights 300, 300, 300
C10_Scenario ==
    /\ seen.ran
    /\ seen.top = 500
    /\ seen.bodyHeight = 800
    /\ seen.heights = <<300, 300, 300>>

\* C10 as claimed: in that scenario onScroll makes the month at index 1 (the second
\* month) current and publishes its subtitle.
C10_ScenarioSelectsIndexOne ==
    C10_Scenario =>
        /\ seen.month = 2
        /\ subtitle = defaultSubtitleRender(months[2])

\* C10 as the code has it: in that scenario the band's bottom, 1300, exceeds the
\* content's height, 900, with a positive offset: onScroll returns early, makes no month
\* current and leaves the subtitle as it was.
C10_ScenarioOvershoots ==
    C10_Scenario =>
        /\ seen.skipped
        /\ seen.month = 0
        /\ subtitle = seen.before

\* the scenario, met with the first month's subtitle on display, which stayed
C10_Witness ==
    /\ C10_Scenario
    /\ scrolls = 0
    /\ seen.before = defaultSubtitleRender(months[1])
    /\ subtitle = defaultSubtitleRender(months[1])

-----------------------------------------------------------------------------
(* Passive synchronisation's properties, over the last onScroll call *)

\* the band the last onScroll call saw ends below the content while its top is positive
BandOvershoots ==
    /\ seen.ran
    /\ seen.top + seen.bodyHeight > Sum(seen.heights)
    /\ seen.top > 0

\* month i of the last onScroll call spans [its top, its top + its height], and that
\* span meets the band [top, top + bodyHeight]
Overlaps(i) ==
    LET monthStart == Sum(SubSeq(seen.heights, 1, i - 1))
    IN  /\ monthStart <= seen.top + seen.bodyHeight
        /\ monthStart + seen.heights[i] >= seen.top

\* C11: whenever onScroll sees the bottom of the band beyond the sum of the month
\* heights while the offset is positive, it makes no month current and leaves the
\* subtitle as it was.
C11_OvershootKeepsSubtitle ==
    BandOvershoots => (seen.month = 0 /\ subtitle = seen.before)

\* the scenario of the overshoot: offset 50, a viewport of 1000 and heights that sum
\* to 900, seen by an onScroll call that follows one which had set a subtitle
C11_Witness ==
    /\ BandOvershoots
    /\ seen.top = 50
    /\ seen.bodyHeight = 1000
    /\ Sum(seen.heights) = 900
    /\ seen.before # NoSubtitle
    /\ subtitle = seen.before

\* C17: when the early return is not taken, onScroll makes current the first month,
\* counting from the top, whose span meets the band, both taken as closed intervals,
\* and the subtitle is the label of that month; no month before it meets the band.
C17_FirstOverlappingMonth ==
    (seen.ran /\ ~BandOvershoots) =>
        /\ seen.month \in 1..Len(seen.heights)
        /\ Overlaps(seen.month)
        /\ \A j \in 1..(seen.month - 1) : ~Overlaps(j)
        /\ subtitle = defaultSubtitleRender(months[seen.month])

\* an onScroll call whose band starts where the first month ends and which makes the
\* first month current, and not the second
C17_Witness ==
    /\ seen.ran
    /\ ~BandOvershoots
    /\ seen.top > 0
    /\ seen.heights[1] = seen.top
    /\ seen.month = 1
    /\ subtitle = defaultSubtitleRender(months[1])

-----------------------------------------------------------------------------
(* The shape of the values published in range mode *)

\* a value [start] with no end, or [start, end] with start no later than end
OrderedRange(v) ==
    /\ v.kind = "list"
    /\ Len(v.dates) \in {1, 2}
    /\ Len(v.dates) = 2 => compareDate(v.dates[1], v.dates[2]) # 1

\* C20: in range mode every value a tap publishes is [start] with the end absent or
\* [start, end] with start no later than end by day comparison, whatever the taps
\* before it, each published value having become the current value.
C20_PublishedRangeOrdered ==
    (type = "range" /\ click.published) =>
        /\ OrderedRange(click.value)
        /\ changeValueRef = click.value
        /\ \A i \in 1..Len(emitted) : OrderedRange(emitted[i])

\* a tap after the start that closed a range of more than one day
C20_Witness ==
    /\ type = "range"
    /\ click.published
    /\ Len(click.before.dates) = 1
    /\ Len(click.value.dates) = 2
    /\ click.before.dates[1] = click.value.dates[1]
    /\ compareDate(click.value.dates[1], click.value.dates[2]) = -1

-----------------------------------------------------------------------------
(* What a tap publishes *)

\* the last onDayClick call was on a day and the calendar is not read-only
Acted == click.day # NoDate /\ ~readonly

\* C13 as stated: a tap publishes only a result that differs from the current value,
\* and one whose result equals the current value publishes nothing.
C13_PublishesOnlyOnChange ==
    (Acted /\ click.sent # <<>>) => click.sent[1] # click.before

\* C13: every tap on a day of a calendar that is not read-only publishes the value
\* computed for it, once, also when that value equals the current value; any other
\* tap publishes nothing.
C13_PublishesEveryResult ==
    /\ Acted =>
          /\ click.sent = <<onDayClickValue(type, click.before, click.day,
                                            getDisabledDays(months, disabled))>>
          /\ changeValueRef = click.sent[1]
    /\ ~Acted => click.sent = <<>>

\* a tap in single mode on the day that is selected, which publishes that day again
C13_Witness ==
    /\ Acted
    /\ type = "single"
    /\ click.before = OneDate(click.day)
    /\ click.sent = <<click.before>>

-----------------------------------------------------------------------------
(* The effect on currentValue, over its last run *)

\* the value the effect last saw is the one the last tap published: the owner handed
\* back the newest published value, or, in single mode, the Date of the same day cell
EchoOfLastPublished ==
    /\ effect.echo
    /\ effect.newest \/ (type = "single" /\ effect.value = effect.ref)

C19_NoEchoNavigates ==
    (effect.ran /\ effect.echo) => ~effect.reset

-----------------------------------------------------------------------------
(* The navigation that follows a change of type or bounds, over the last reset call *)

\* C16: after a change of the bounds or of the type the months are rebuilt, the
\* value is normalised again, and the navigation that follows takes its target date
\* from the normalised value by the new type (the Date in single mode, the first
\* element otherwise) and looks its month up in the rebuilt months.
C16_NavigationUsesCurrentState ==
    lastReset.by = "props" =>
        /\ months = monthsOf(minValue, maxValue)
        /\ norm = normCall(type, Coalesce(currentValue, defaultValue), today,
                           minValue, maxValue)
        /\ lastReset.date = norm.result
        /\ Truthy(lastReset.date) =>
              /\ lastReset.target = targetDate(type, lastReset.date)
              /\ lastReset.index = monthIndexOf(months, lastReset.target)

-----------------------------------------------------------------------------
(* scrollToDate's properties, over the last call that resolved and the last that   *)
(* failed                                                                          *)

\* C14: when the measurements of a scrollToDate call resolve after those of a later
\* call, which was the latest, the earlier call applies nothing and the offset
\* applied stays the one the latest call computed.
C14_LastNavigationWins ==
    (lastApply.ran /\ lastApply.winner >= 0) =>
        /\ lastApply.calls = <<>>
        /\ bodyScrollTop = lastApply.winner

\* C15 as stated: when a measurement of the latest scrollToDate call rejects or never
\* resolves, the subtitle is the one from before that call.
C15_FailureKeepsPriorSubtitle ==
    (lastFail.ran /\ lastFail.latest) => lastFail.subtitle = lastFail.subBefore

\* C15: a scrollToDate call sets the subtitle to the label of its month as it is
\* made, before its measurements; and when a measurement of a call rejects or never
\* resolves, the call is over, no call is made in its place, and the step changes
\* neither the offset applied nor the subtitle.
C15_FailureChangesNothing ==
    [][/\ (lastReset' # lastReset /\ lastReset'.found) =>
            /\ subtitle' = defaultSubtitleRender(months'[lastReset'.index])
            /\ navs'[Len(navs')] = navCall(lastReset'.index)
       /\ lastFail' # lastFail =>
            /\ Len(navs') = Len(navs) - 1
            /\ bodyScrollTop' = bodyScrollTop
            /\ scrollTop' = scrollTop
            /\ lastApply' = lastApply
            /\ subtitle' = subtitle]_vars

\* the only call in flight has failed: the subtitle is the label of the month the
\* call was for, no longer the one from before the call
C15_Witness ==
    /\ lastFail.ran
    /\ lastFail.latest
    /\ navs = <<>>
    /\ lastFail.subtitle # lastFail.subBefore
    /\ lastFail.subtitle = defaultSubtitleRender(months[lastReset.index])
    /\ subtitle = lastFail.subtitle

\* C18 as stated: the then callback compares the new offset with the offset applied
\* last, and applies that offset and then the new one when they differ, the new one
\* alone when they are the same.
C18_TwoStepFromLastApplied ==
    lastApply.ran =>
        lastApply.calls = (IF lastApply.target # lastApply.applied
                           THEN <<lastApply.applied, lastApply.target>>
                           ELSE <<lastApply.target>>)

\* C18: the then callback compares the new offset, the top of the month within the
\* content, with the offset the last scroll event reported, and applies that offset
\* and then the new one when they differ, the new one alone when they are the same.
C18_TwoStepFromReportedOffset ==
    lastApply.ran =>
        /\ lastApply.calls = (IF lastApply.target # lastApply.ref
                              THEN <<lastApply.ref, lastApply.target>>
                              ELSE <<lastApply.target>>)
        /\ bodyScrollTop = lastApply.target

\* the new offset is the offset applied last, the container having been scrolled
\* away since, and the callback applies the reported offset and then the new one
C18_Witness ==
    /\ lastApply.ran
    /\ lastApply.target = lastApply.applied
    /\ lastApply.ref # lastApply.applied
    /\ lastApply.calls = <<lastApply.ref, lastApply.target>>
    /\ bodyScrollTop = lastApply.target

=============================================================================
